---- MODULE Spec2Model ----
(***************************************************************************)
(* The streaming chat-completion client of ssyqq/dream.                    *)
(*                                                                         *)
(*   api.rs  send_request : the request / retry / stream-parsing engine    *)
(*   ui.rs   ChatApp::send_message : the task that calls send_request and  *)
(*           reports its Err on the channel                                *)
(*   ui.rs   ChatApp::update : the consumer, one try_recv per tick         *)
(*                                                                         *)
(* Text is a sequence of tokens, each token standing for a fixed run of    *)
(* bytes that the transport may or may not cut from its neighbours:        *)
(*   "da" "ta: "   the two halves of the marker  data:                     *)
(*   "[DO" "NE]"   the two halves of the terminator  [DONE]                *)
(*   "{c"          {"choices":[{"delta":{"content":"                       *)
(*   "{e"          {"error":{"message":"overloaded"}                       *)
(*   "}"           the bytes closing the JSON document                     *)
(*   "a"           an ASCII character of a content delta                   *)
(*   "u1" "u2"     the lead and continuation byte of one two-byte UTF-8    *)
(*                 character of a content delta                            *)
(*   "LF"          the line feed                                           *)
(***************************************************************************)
EXTENDS Integers, Sequences, FiniteSets, TLC

VARIABLES eng, chan, ui, eng2, chan2

vars == <<eng, chan, ui, eng2, chan2>>

\* ------------------------------------------------------------------ bounds

\* The largest max_retries a send is started with (the smallest is -1).
MaxRetries == 2
\* The largest number of lines a server writes into a response body.
MaxFrames == 3
\* The largest number of read errors the transport raises in one send.
MaxReadErrors == 1
\* The largest number of chunks that are not valid UTF-8 in one send.
MaxInvalidChunks == 2
\* The largest number of lines of a body when the decoder is checked alone.
MaxDecoderFrames == 4
\* The largest number of times the user selects a chat during a send.
MaxSelections == 1
\* The largest number of lines of a body when two sends run together.
MaxFramesTwo == 2
\* The largest max_retries when two sends run together.
MaxRetriesTwo == 1

\* ------------------------------------------------------- program constants

TOO_MANY_REQUESTS == 429

\* Non-2xx statuses other than 429 the server answers with.
HardStatuses == {404, 500}

\* ------------------------------------------------------------------- text

Marker == <<"da", "ta: ">>
Terminator == <<"[DO", "NE]">>

ContentChars == {"a", "u1", "u2"}

\* The reply a server streams, one character per content frame: an ASCII
\* character first, two-byte characters after it.
Delta(i) == IF i = 1 THEN <<"a">> ELSE <<"u1", "u2">>

\* The lines a server writes: a content delta, an error object, the
\* terminator.
ContentLine(i) == Marker \o <<"{c">> \o Delta(i) \o <<"}">>
LineErr == Marker \o <<"{e", "}">>
LineDone == Marker \o Terminator

LineKinds == {"content", "error", "done"}

\* The lines of the kinds ks, written after c content lines.
RECURSIVE Written(_, _)
Written(ks, c) ==
    IF ks = <<>> THEN <<>>
    ELSE IF Head(ks) = "content"
         THEN <<ContentLine(c + 1)>> \o Written(Tail(ks), c + 1)
    ELSE IF Head(ks) = "error" THEN <<LineErr>> \o Written(Tail(ks), c)
    ELSE <<LineDone>> \o Written(Tail(ks), c)

RECURSIVE Flatten(_)
Flatten(ls) ==
    IF ls = <<>> THEN <<>> ELSE Head(ls) \o <<"LF">> \o Flatten(Tail(ls))

SeqsUpTo(S, n) == UNION {[1..k -> S] : k \in 0..n}

\* The number of content lines written into a body so far.
NumContent(body) == Cardinality({i \in 1..Len(body) : body[i] = "{c"})

\* The number of lines written into a body so far.
NumLines(body) == Cardinality({i \in 1..Len(body) : body[i] = "LF"})

\* String::from_utf8: a lead byte needs its continuation byte right after
\* it, a continuation byte its lead byte right before it.
ValidUtf8(chunk) ==
    \A i \in 1..Len(chunk) :
        /\ chunk[i] = "u1" => (i < Len(chunk) /\ chunk[i + 1] = "u2")
        /\ chunk[i] = "u2" => (i > 1 /\ chunk[i - 1] = "u1")

\* str::lines: split at line feeds; the final line ending is optional.
RECURSIVE LinesFrom(_, _)
LinesFrom(text, cur) ==
    IF text = <<>> THEN (IF cur = <<>> THEN <<>> ELSE <<cur>>)
    ELSE IF Head(text) = "LF" THEN <<cur>> \o LinesFrom(Tail(text), <<>>)
    ELSE LinesFrom(Tail(text), Append(cur, Head(text)))

Lines(text) == LinesFrom(text, <<>>)

\* str::contains / str::find of "data: ".
MarkerAt(buf, i) ==
    /\ i + 1 <= Len(buf)
    /\ buf[i] = Marker[1]
    /\ buf[i + 1] = Marker[2]

ContainsMarker(buf) == \E i \in 1..Len(buf) : MarkerAt(buf, i)

FindMarker(buf) ==
    CHOOSE i \in 1..Len(buf) :
        MarkerAt(buf, i) /\ \A j \in 1..(i - 1) : ~MarkerAt(buf, j)

\* Mutant of AfterMarker: the text after the last marker is taken.
AfterMarker_Last(buf) ==
    LET i == CHOOSE k \in 1..Len(buf) :
                 MarkerAt(buf, k) /\ \A j \in (k + 1)..Len(buf) : ~MarkerAt(buf, j)
    IN  SubSeq(buf, i + 2, Len(buf))

\* &incomplete_data[index + 6..]
AfterMarker(buf) == SubSeq(buf, FindMarker(buf) + 2, Len(buf))

\* What may stand inside a JSON string: the characters of a delta, and the
\* bytes of a marker or terminator, which hold no quote.
StringChars == ContentChars \cup {"da", "ta: ", "[DO", "NE]"}

\* serde_json::from_str::<JsonValue>: the whole of data must be one JSON
\* document.  ok: it parsed; error: json.get("error") is Some;
\* has_content: json["choices"][0]["delta"]["content"].as_str() is Some,
\* and content is that string.
NoJson == [ok |-> FALSE, error |-> FALSE, has_content |-> FALSE, content |-> <<>>]

JsonParse(data) ==
    IF Len(data) >= 2 /\ data[Len(data)] = "}" /\ data[1] = "{c"
       /\ \A i \in 2..(Len(data) - 1) : data[i] \in StringChars
    THEN [ok |-> TRUE, error |-> FALSE, has_content |-> TRUE,
          content |-> SubSeq(data, 2, Len(data) - 1)]
    ELSE IF data = <<"{e", "}">>
    THEN [ok |-> TRUE, error |-> TRUE, has_content |-> FALSE, content |-> <<>>]
    ELSE NoJson

\* --------------------------------------------------------------- messages

\* What travels on the channel is a String; kind tells which format! made it.
Msg(k, t, n) == [kind |-> k, text |-> t, n |-> n]

StreamDone == Msg("done", <<>>, 0)
ContentUpdate(text) == Msg("content", text, 0)
RetryNotice(cause, n) == Msg("notice", <<cause>>, n)
ApiErrorMsg(n) == Msg("fatal", <<"api">>, n)
ErrorMsg(result, status) == Msg("fatal", <<result>>, status)

\* ----------------------------------------------------------------- engine

\* tx.send(m): the message joins the channel.
Send(e, m) == [e EXCEPT !.sent = Append(@, m)]

\* Mutants of CanRetry: an off-by-one bound; the retry switch ignored.
CanRetry_OffByOne(e) == e.retry_enabled /\ e.retry_count <= e.max_retries
CanRetry_NoSwitch(e) == e.retry_count < e.max_retries

\* retry_enabled && retry_count < max_retries
CanRetry(e) == e.retry_enabled /\ e.retry_count < e.max_retries

\* Mutant of Retry: the notice is sent but the counter is not incremented.
Retry_NoCount(e, cause) == Send(e, RetryNotice(cause, e.retry_count + 1))

\* retry_count += 1; tx.send(format!("...第 {} 次重试...", retry_count))
Retry(e, cause) ==
    Send([e EXCEPT !.retry_count = @ + 1], RetryNotice(cause, e.retry_count + 1))

\* Mutant of OnResult: the error is reported without the terminal marker.
OnResult_NoDone(e) ==
    IF e.result = "Ok" THEN e
    ELSE Send(e, ErrorMsg(e.result, e.status))

\* Mutant of OnResult: the terminal marker is sent after Ok(()) as well.
OnResult_AlwaysDone(e) ==
    IF e.result = "Ok" THEN Send(e, StreamDone)
    ELSE Send(Send(e, ErrorMsg(e.result, e.status)), StreamDone)

\* The task of send_message around send_request: an Err is reported as
\* "错误: {e}" followed by "__STREAM_DONE__"; after Ok(()) nothing is sent.
OnResult(e) ==
    IF e.result = "Ok" THEN e
    ELSE Send(Send(e, ErrorMsg(e.result, e.status)), StreamDone)

\* return Ok(()) / return Err(..) of send_request, and what its caller does.
Return(e, result, status) ==
    OnResult([e EXCEPT !.pc = "returned", !.result = result, !.status = status])

\* Mutant of OnErrorStatus: every error status is retried like a 429.
OnErrorStatus_RetryAll(e, status) ==
    IF CanRetry(e)
    THEN [Retry(e, "429") EXCEPT !.pc = "attempt"]
    ELSE Return(e, "HttpError", status)

\* if !response.status().is_success() { ... }
OnErrorStatus(e, status) ==
    IF status = TOO_MANY_REQUESTS
    THEN IF CanRetry(e)
         THEN [Retry(e, "429") EXCEPT !.pc = "attempt"]
         ELSE Return(e, "TooManyRequests", status)
    ELSE Return(e, "HttpError", status)

\* Mutant of OnSuccessStatus: the retry counter is kept per HTTP attempt.
OnSuccessStatus_ResetCounter(e) ==
    [e EXCEPT !.pc = "stream", !.current_message = <<>>,
              !.body = <<>>, !.pos = 0, !.retry_count = 0,
              !.frames = <<>>, !.resp_start = Len(e.sent)]

\* let mut stream = response.bytes_stream(); let mut current_message = String::new();
OnSuccessStatus(e) ==
    [e EXCEPT !.pc = "stream", !.current_message = <<>>,
              !.body = <<>>, !.pos = 0,
              !.frames = <<>>, !.resp_start = Len(e.sent)]

\* Mutant of OnApiError: the retry discards the accumulated message.
OnApiError_ClearMessage(e) ==
    IF CanRetry(e)
    THEN [Retry(e, "api") EXCEPT !.current_message = <<>>]
    ELSE Return(Send(Send(e, ApiErrorMsg(e.retry_count)), StreamDone), "Ok", 0)

\* Mutant of OnApiError: the retry abandons the response and goes back to
\* issuing the request.
OnApiError_Restart(e) ==
    IF CanRetry(e)
    THEN [Retry(e, "api") EXCEPT !.pc = "attempt"]
    ELSE Return(Send(Send(e, ApiErrorMsg(e.retry_count)), StreamDone), "Ok", 0)

\* if let Some(error) = json.get("error") { ... }
OnApiError(e) ==
    IF CanRetry(e)
    THEN Retry(e, "api")
    ELSE Return(Send(Send(e, ApiErrorMsg(e.retry_count)), StreamDone), "Ok", 0)

\* Mutant of OnContent: the delta is sent instead of the accumulated text.
OnContent_DeltaOnly(e, json) ==
    IF json.has_content
    THEN Send([e EXCEPT !.current_message = @ \o json.content],
              ContentUpdate(json.content))
    ELSE e

\* if let Some(content) = json[...]["content"].as_str() { ... }
OnContent(e, json) ==
    IF json.has_content
    THEN LET m == e.current_message \o json.content
         IN  Send([e EXCEPT !.current_message = m], ContentUpdate(m))
    ELSE e

\* Mutant of OnJson: only the marker and the frame are removed from the
\* buffer, the text before the marker stays.
OnJson_KeepPrefix(e, data, json) ==
    LET c == [e EXCEPT !.incomplete_data = SubSeq(@, 1, FindMarker(@) - 1),
                       !.frames = Append(@, data)]
    IN  IF json.error THEN OnApiError(c) ELSE OnContent(c, json)

\* Ok(json) => { incomplete_data.clear(); ... }
OnJson(e, data, json) ==
    LET c == [e EXCEPT !.incomplete_data = <<>>, !.frames = Append(@, data)]
    IN  IF json.error THEN OnApiError(c) ELSE OnContent(c, json)

\* Mutant of OnTerminator: Done is sent but reading goes on.
OnTerminator_NoReturn(e, data) ==
    Send([e EXCEPT !.frames = Append(@, data)], StreamDone)

\* if data == "[DONE]" { tx.send("__STREAM_DONE__"); return Ok(()); }
OnTerminator(e, data) ==
    Return(Send([e EXCEPT !.frames = Append(@, data)], StreamDone), "Ok", 0)

\* The body of  for line in text.lines() { ... }
ProcessLine(e, line) ==
    LET b == [e EXCEPT !.incomplete_data = @ \o line]
        buf == b.incomplete_data
    IN  IF ~ContainsMarker(buf) THEN b
        ELSE LET data == AfterMarker(buf)
                 json == JsonParse(data)
             IN  IF data = Terminator
                 THEN OnTerminator(b, data)
                 ELSE IF json.ok THEN OnJson(b, data, json)
                 ELSE b

\* for line in text.lines(): leaving the stream inside the loop ends it.
RECURSIVE ProcessLines(_, _)
ProcessLines(e, ls) ==
    IF ls = <<>> \/ e.pc # "stream" THEN e
    ELSE ProcessLines(ProcessLine(e, Head(ls)), Tail(ls))

\* Mutant of ProcessChunk: the chunk is decoded lossily and always processed.
ProcessChunk_Lossy(e, chunk) == ProcessLines(e, Lines(chunk))

\* Ok(chunk) => { if let Ok(text) = String::from_utf8(chunk.to_vec()) { ... } }
ProcessChunk(e, chunk) ==
    IF ValidUtf8(chunk) THEN ProcessLines(e, Lines(chunk)) ELSE e

\* Mutant of OnReadError: the retry leaves the response and issues the
\* request again, with the decoder buffer as it is.
OnReadError_Reissue(e) ==
    LET r == [e EXCEPT !.read_errors = @ + 1]
    IN  IF CanRetry(r) THEN [Retry(r, "net") EXCEPT !.pc = "attempt"]
        ELSE Return(r, "Other", 0)

\* Err(e) => { ... } of the chunk match.
OnReadError(e) ==
    LET r == [e EXCEPT !.read_errors = @ + 1]
    IN  IF CanRetry(r) THEN Retry(r, "net") ELSE Return(r, "Other", 0)

\* ------------------------------------------------------------------ state

\* send_request is entered with the caller's retry settings.
Entry(enabled, max) ==
    [pc |-> "attempt", retry_enabled |-> enabled, max_retries |-> max,
     retry_count |-> 0, incomplete_data |-> <<>>, current_message |-> <<>>,
     result |-> "none", status |-> 0, body |-> <<>>, pos |-> 0,
     sent |-> <<>>, attempts |-> 0, statuses |-> <<>>, frames |-> <<>>,
     resp_start |-> 0, read_errors |-> 0, invalid_chunks |-> 0]

\* The chats of the list: A is the one the message is sent from, B another
\* one the user may select.
ChatIds == {"A", "B"}

\* The messages stored in chat B.
OtherChat ==
    <<[role |-> "user", content |-> <<"p">>],
      [role |-> "assistant", content |-> <<"r">>]>>

\* ChatApp after send_message in chat A, a chat with no message stored
\* yet: the user's message is the last of the history, the receiver is the
\* one of the channel just created.  received lists what try_recv has
\* returned and from which channel; selections counts the chats selected
\* since and selected_at is the length of received at the last one.
Sending ==
    [chat_history |-> <<[role |-> "user", content |-> <<"q">>]>>,
     receiver |-> "send", current_chat_id |-> "A",
     chats |-> [c \in ChatIds |-> IF c = "A" THEN <<>> ELSE OtherChat],
     received |-> <<>>, from |-> <<>>, selections |-> 0, selected_at |-> 0]

\* No second send has been started.
Idle == [Entry(FALSE, 0) EXCEPT !.pc = "idle"]

Init ==
    /\ \E enabled \in BOOLEAN, max \in (-1)..MaxRetries : eng = Entry(enabled, max)
    /\ chan = <<>>
    /\ ui = Sending
    /\ eng2 = Idle
    /\ chan2 = <<>>

\* tx.send of what a step of the engine sends: the messages join the
\* channel while its receiver is held; once the receiver is dropped send
\* returns Err, which let _ = ignores.
Delivered1(e) ==
    IF ui.receiver = "send"
    THEN chan \o SubSeq(e.sent, Len(eng.sent) + 1, Len(e.sent))
    ELSE chan

Deliver(e) == chan' = Delivered1(e)

Step(e) == eng' = e /\ Deliver(e) /\ UNCHANGED <<ui, eng2, chan2>>

\* client.post(..).send().await answers with an outcome (0: no response).
Issued(status) ==
    [eng EXCEPT !.attempts = @ + 1, !.statuses = Append(@, status)]

\* .send().await.map_err(ApiError::Other)?
SendFailed ==
    /\ eng.pc = "attempt"
    /\ Step(Return(Issued(0), "Other", 0))

Respond429 ==
    /\ eng.pc = "attempt"
    /\ Step(OnErrorStatus(Issued(TOO_MANY_REQUESTS), TOO_MANY_REQUESTS))

RespondError ==
    /\ eng.pc = "attempt"
    /\ \E status \in HardStatuses : Step(OnErrorStatus(Issued(status), status))

Respond2xx ==
    /\ eng.pc = "attempt"
    /\ Step(OnSuccessStatus(Issued(200)))

\* stream.next().await yields Some(Ok(chunk)).  The server has written the
\* lines ls since the last chunk, of a body of at most n lines; the chunk
\* holds the bytes not yet delivered up to some byte of the last line
\* written.
ReadChunk(n) ==
    /\ eng.pc = "stream"
    /\ \E ks \in SeqsUpTo(LineKinds, n - NumLines(eng.body)) :
          LET ls == Written(ks, NumContent(eng.body))
              body == eng.body \o Flatten(ls)
              first == IF ls = <<>> THEN eng.pos + 1
                       ELSE Len(body) - Len(ls[Len(ls)])
          IN  \E last \in first..Len(body) :
                LET chunk == SubSeq(body, eng.pos + 1, last)
                    bad == IF ValidUtf8(chunk) THEN 0 ELSE 1
                    \* the chunk after a cut inside a character is invalid too
                    cut == IF chunk # <<>> /\ chunk[Len(chunk)] = "u1" THEN 1 ELSE 0
                IN  /\ eng.invalid_chunks + bad + cut <= MaxInvalidChunks
                    /\ Step(ProcessChunk([eng EXCEPT !.body = body,
                                                     !.pos = last,
                                                     !.invalid_chunks = @ + bad],
                                         chunk))

NextChunk == ReadChunk(MaxFrames)

\* stream.next().await yields Some(Err(e)).
NextError ==
    /\ eng.pc = "stream"
    /\ eng.read_errors < MaxReadErrors
    /\ Step(OnReadError(eng))

\* Mutant of NextEnd: the end of the body is reported with Done.
NextEnd_SendsDone ==
    /\ eng.pc = "stream"
    /\ eng.pos = Len(eng.body)
    /\ Step(Return(Send(eng, StreamDone), "Ok", 0))

\* stream.next().await yields None: return Ok(()) after the while loop.
NextEnd ==
    /\ eng.pc = "stream"
    /\ eng.pos = Len(eng.body)
    /\ Step(Return(eng, "Ok", 0))

Next ==
    \/ SendFailed
    \/ Respond429
    \/ RespondError
    \/ Respond2xx
    \/ NextChunk
    \/ NextError
    \/ NextEnd

Spec == Init /\ [][Next]_vars

\* -------------------------------------------------------------- consumer

\* The String a message is on the channel.
Str(m) == IF m.kind = "content" THEN m.text ELSE <<m.kind>> \o m.text

\* ChatHistory::last_message_is_assistant
last_message_is_assistant(h) == h # <<>> /\ h[Len(h)].role = "assistant"

\* ChatApp::handle_response
handle_response(u, response) ==
    IF last_message_is_assistant(u.chat_history)
    THEN [u EXCEPT !.chat_history[Len(u.chat_history)].content = @ \o response]
    ELSE [u EXCEPT !.chat_history =
                       Append(@, [role |-> "assistant", content |-> response])]

\* The "__STREAM_DONE__" arm: the history is stored into the current chat,
\* if there is one; for a chat not yet renamed a title request is spawned
\* on a channel of its own, whose receiver replaces the one held.
\* Mutant of OnStreamDone: the history is stored into the chat the message
\* was sent from.
OnStreamDone_ToSender(u, chat) ==
    IF chat = "none" THEN u
    ELSE [u EXCEPT !.chats["A"] = u.chat_history,
                   !.receiver = IF chat = "unnamed" THEN "title" ELSE @]

OnStreamDone(u, chat) ==
    IF chat = "none" THEN u
    ELSE [u EXCEPT !.chats[u.current_chat_id] = u.chat_history,
                   !.receiver = IF chat = "unnamed" THEN "title" ELSE @]

\* Mutant of try_recv: the message is returned but stays queued.
try_recv_Peek(q) == [msg |-> Head(q), rest |-> q]

\* UnboundedReceiver::try_recv on a channel that holds a message.
try_recv(q) == [msg |-> Head(q), rest |-> Tail(q)]

\* What the "__STREAM_DONE__" arm finds for current_chat_id: no chat, a
\* chat that was renamed, a chat that was not.
ChatStates == {"none", "renamed", "unnamed"}

\* The match on the message received.
Handle(u, m, chat) ==
    IF m = StreamDone THEN OnStreamDone(u, chat)
    ELSE handle_response(u, Str(m))

\* The channel whose receiver the consumer holds.
Held == IF ui.receiver = "send" THEN chan
        ELSE IF ui.receiver = "send2" THEN chan2 ELSE <<>>

\* The channels after the consumer has left q in the one it holds.
Leave(q) ==
    /\ chan' = IF ui.receiver = "send" THEN q ELSE chan
    /\ chan2' = IF ui.receiver = "send2" THEN q ELSE chan2

\* The consumer has taken m.
Received(u, m) ==
    [u EXCEPT !.received = Append(@, m), !.from = Append(@, u.receiver)]

RECURSIVE HandleAll(_, _, _)
HandleAll(u, q, chat) ==
    IF q = <<>> \/ u.receiver # ui.receiver THEN u
    ELSE HandleAll(Handle(Received(u, Head(q)), Head(q), chat), Tail(q), chat)

\* Mutant of Poll: a tick handles every message queued.
Poll_Drain ==
    /\ Held # <<>>
    /\ \E chat \in ChatStates : ui' = HandleAll(ui, Held, chat)
    /\ Leave(<<>>)
    /\ UNCHANGED <<eng, eng2>>

\* One tick of ChatApp::update: at most one message is taken and handled.
Poll ==
    /\ Held # <<>>
    /\ LET r == try_recv(Held)
       IN  /\ Leave(r.rest)
           /\ IF r.msg = StreamDone
              THEN \E chat \in ChatStates :
                      ui' = Handle(Received(ui, r.msg), r.msg, chat)
              ELSE ui' = Handle(Received(ui, r.msg), r.msg, "none")
    /\ UNCHANGED <<eng, eng2>>

NextUI == Next \/ Poll

SpecUI == Init /\ [][NextUI]_vars

\* A click on a chat of the list: it becomes the current chat and its
\* stored messages the history displayed.
SelectChat ==
    /\ ui.selections < MaxSelections
    /\ \E id \in ChatIds :
          ui' = [ui EXCEPT !.current_chat_id = id,
                           !.chat_history = ui.chats[id],
                           !.selections = @ + 1,
                           !.selected_at = Len(ui.received)]
    /\ UNCHANGED <<eng, chan, eng2, chan2>>

NextChats == NextUI \/ SelectChat

\* The consumer with a user who selects chats while the send is in flight.
SpecChats == Init /\ [][NextChats]_vars

\* ------------------------------------------------------------ two sends

\* The engine, the channel and the receiver of send k.
Eng(k) == IF k = 1 THEN eng ELSE eng2
Chan(k) == IF k = 1 THEN chan ELSE chan2
ReceiverOf(k) == IF k = 1 THEN "send" ELSE "send2"

\* client.post(..).send().await of engine e answers with an outcome.
IssuedBy(e, status) ==
    [e EXCEPT !.attempts = @ + 1, !.statuses = Append(@, status)]

\* let _ = tx.send(..) of send k: the messages join the channel of the send
\* while the consumer holds its receiver; otherwise send returns Err and
\* the result is dropped.
DeliveredTo(k, e) ==
    IF ui.receiver = ReceiverOf(k)
    THEN Chan(k) \o SubSeq(e.sent, Len(Eng(k).sent) + 1, Len(e.sent))
    ELSE Chan(k)

\* Mutant of Advance: a send that fails ends the task, as tx.send(..)?
\* would.
Advance_StopWhenClosed(k, e) ==
    IF ui.receiver # ReceiverOf(k) /\ Len(e.sent) > Len(Eng(k).sent)
    THEN [Eng(k) EXCEPT !.pc = "returned", !.result = "Other"]
    ELSE e

\* Mutant of Advance: retry_count is one counter that the tasks share.
Advance_SharedCounter(k, e) ==
    [e EXCEPT !.retry_count = @ + Eng(3 - k).retry_count]

\* The locals of the task of send k after a step that leaves them as e.
Advance(k, e) == e

\* A step of the task of send k.
StepOf(k, e) ==
    /\ IF k = 1
       THEN /\ eng' = Advance(1, e)
            /\ chan' = DeliveredTo(1, e)
            /\ UNCHANGED <<eng2, chan2>>
       ELSE /\ eng2' = Advance(2, e)
            /\ chan2' = DeliveredTo(2, e)
            /\ UNCHANGED <<eng, chan>>
    /\ UNCHANGED ui

SendFailedOf(k) ==
    /\ Eng(k).pc = "attempt"
    /\ StepOf(k, Return(IssuedBy(Eng(k), 0), "Other", 0))

Respond429Of(k) ==
    /\ Eng(k).pc = "attempt"
    /\ StepOf(k, OnErrorStatus(IssuedBy(Eng(k), TOO_MANY_REQUESTS), TOO_MANY_REQUESTS))

RespondErrorOf(k) ==
    /\ Eng(k).pc = "attempt"
    /\ \E status \in HardStatuses :
          StepOf(k, OnErrorStatus(IssuedBy(Eng(k), status), status))

Respond2xxOf(k) ==
    /\ Eng(k).pc = "attempt"
    /\ StepOf(k, OnSuccessStatus(IssuedBy(Eng(k), 200)))

\* stream.next().await yields Some(Ok(chunk)): the chunk is the next line
\* of the body, whole.
NextLineOf(k) ==
    /\ Eng(k).pc = "stream"
    /\ NumLines(Eng(k).body) < MaxFramesTwo
    /\ \E kind \in LineKinds :
          LET chunk == Flatten(Written(<<kind>>, NumContent(Eng(k).body)))
          IN  StepOf(k, ProcessChunk([Eng(k) EXCEPT !.body = @ \o chunk,
                                                    !.pos = @ + Len(chunk)],
                                     chunk))

NextErrorOf(k) ==
    /\ Eng(k).pc = "stream"
    /\ Eng(k).read_errors < MaxReadErrors
    /\ StepOf(k, OnReadError(Eng(k)))

NextEndOf(k) ==
    /\ Eng(k).pc = "stream"
    /\ Eng(k).pos = Len(Eng(k).body)
    /\ StepOf(k, Return(Eng(k), "Ok", 0))

\* The user's message of the second send.
SecondMessage == [role |-> "user", content |-> <<"q2">>]

\* Mutant of StartSecond: the receiver of the first send is kept.
StartSecond_KeepReceiver ==
    /\ eng2.pc = "idle"
    /\ ui' = [ui EXCEPT !.chat_history = Append(@, SecondMessage)]
    /\ \E enabled \in BOOLEAN, max \in 0..MaxRetriesTwo :
          eng2' = Entry(enabled, max)
    /\ UNCHANGED <<eng, chan, chan2>>

\* send_message while the first send may be in flight: a new channel is
\* created and its receiver stored in self.receiver, which drops the
\* receiver held and what its channel had queued; the user's message is
\* added to the history and a new task is spawned with the retry settings
\* of the moment.
StartSecond ==
    /\ eng2.pc = "idle"
    /\ ui' = [ui EXCEPT !.receiver = "send2",
                        !.chat_history = Append(@, SecondMessage)]
    /\ \E enabled \in BOOLEAN, max \in 0..MaxRetriesTwo :
          eng2' = Entry(enabled, max)
    /\ chan' = <<>>
    /\ UNCHANGED <<eng, chan2>>

InitTwo ==
    /\ \E enabled \in BOOLEAN, max \in 0..MaxRetriesTwo : eng = Entry(enabled, max)
    /\ chan = <<>>
    /\ ui = Sending
    /\ eng2 = Idle
    /\ chan2 = <<>>

NextTwo ==
    \/ \E k \in {1, 2} : SendFailedOf(k)
    \/ \E k \in {1, 2} : Respond429Of(k)
    \/ \E k \in {1, 2} : RespondErrorOf(k)
    \/ \E k \in {1, 2} : Respond2xxOf(k)
    \/ \E k \in {1, 2} : NextLineOf(k)
    \/ \E k \in {1, 2} : NextErrorOf(k)
    \/ \E k \in {1, 2} : NextEndOf(k)
    \/ StartSecond
    \/ Poll

\* Two sends of one ChatApp and its consumer.
SpecTwo == InitTwo /\ [][NextTwo]_vars

\* The decoder on its own: one 2xx response of up to MaxDecoderFrames
\* lines, read with no read error, by a send started with retry disabled.
InitDecoder ==
    /\ eng = Entry(FALSE, 0)
    /\ chan = <<>>
    /\ ui = Sending
    /\ eng2 = Idle
    /\ chan2 = <<>>

DecoderChunk == ReadChunk(MaxDecoderFrames)

NextDecoder == Respond2xx \/ DecoderChunk \/ NextEnd

SpecDecoder == InitDecoder /\ [][NextDecoder]_vars

\* Each request is answered and each body read to a chunk, an error or its
\* end: the engine does not stop while it can take a step.
SpecLive == Spec /\ WF_vars(Next)

\* ----------------------------------------------------------------- claims

Last(s) == s[Len(s)]

\* The retry notices of n consecutive 429 responses.
Notices429(n) == [i \in 1..n |-> RetryNotice("429", i)]

\* Every request issued so far was answered with status 429.
All429 == \A i \in 1..Len(eng.statuses) : eng.statuses[i] = TOO_MANY_REQUESTS

\* C1: with retry_enabled and max_retries = N >= 0, a send whose every
\* request is answered 429 issues exactly N+1 requests, emits the retry
\* notices 1..N in order, and then ends with ApiError::TooManyRequests.
C1_RetryBound ==
    (eng.retry_enabled /\ eng.max_retries >= 0 /\ All429) =>
        LET N == eng.max_retries
            k == eng.attempts
        IN  /\ k <= N + 1
            /\ k <= N => /\ eng.pc = "attempt"
                         /\ eng.sent = Notices429(k)
            /\ k = N + 1 =>
                 /\ eng.pc = "returned"
                 /\ eng.result = "TooManyRequests"
                 /\ eng.retry_count = N
                 /\ eng.sent = Notices429(N) \o
                       <<ErrorMsg("TooManyRequests", TOO_MANY_REQUESTS), StreamDone>>

C1_Witness ==
    /\ eng.retry_enabled
    /\ eng.max_retries = MaxRetries
    /\ All429
    /\ eng.attempts = MaxRetries + 1
    /\ eng.result = "TooManyRequests"

\* C2: a non-2xx status other than 429 ends the send at once with the
\* HTTP-status error carrying that status: it is the last request issued,
\* no retry notice is sent for it and the retry counter keeps the value the
\* earlier 429 responses gave it, whatever retry_enabled and max_retries are.
C2_NoRetryOnHardError ==
    \A i \in 1..Len(eng.statuses) :
        eng.statuses[i] \in HardStatuses =>
            /\ i = Len(eng.statuses)
            /\ eng.attempts = i
            /\ eng.pc = "returned"
            /\ eng.result = "HttpError"
            /\ eng.status = eng.statuses[i]
            /\ eng.retry_count = i - 1
            /\ eng.sent = Notices429(i - 1) \o
                  <<ErrorMsg("HttpError", eng.statuses[i]), StreamDone>>

C2_Witness ==
    /\ eng.retry_enabled
    /\ eng.max_retries = MaxRetries
    /\ eng.statuses = <<500>>
    /\ eng.attempts = 1
    /\ eng.result = "HttpError"

\* C3: with retry_enabled = false, a 429 answer to the first request gives
\* exactly one request, no retry notice, and on the channel exactly the
\* rate-limit error message followed by Done.
C3_RateLimitNoRetry ==
    (~eng.retry_enabled /\ eng.statuses # <<>>
        /\ eng.statuses[1] = TOO_MANY_REQUESTS) =>
        /\ eng.attempts = 1
        /\ eng.pc = "returned"
        /\ eng.result = "TooManyRequests"
        /\ chan = <<ErrorMsg("TooManyRequests", TOO_MANY_REQUESTS), StreamDone>>

C3_Witness ==
    /\ ~eng.retry_enabled
    /\ eng.max_retries = MaxRetries
    /\ eng.statuses = <<TOO_MANY_REQUESTS>>
    /\ Len(chan) = 2

\* A 2xx response is being consumed, or was the last thing the send did.
InResponse == eng.statuses # <<>> /\ Last(eng.statuses) = 200

\* What was sent since the 2xx response arrived.
ResponseEvents == SubSeq(eng.sent, eng.resp_start + 1, Len(eng.sent))

IsContent(m) == m.kind = "content"
IsDelta(frame) == JsonParse(frame).has_content
IsErrorFrame(frame) == JsonParse(frame).error

RECURSIVE Concat(_)
Concat(ds) == IF ds = <<>> THEN <<>> ELSE JsonParse(Head(ds)).content \o Concat(Tail(ds))

\* The events a sequence of content frames ended by the terminator asks for.
RECURSIVE Snapshots(_, _)
Snapshots(fs, acc) ==
    IF fs = <<>> THEN <<>>
    ELSE IF Head(fs) = Terminator THEN <<StreamDone>>
    ELSE LET m == acc \o JsonParse(Head(fs)).content
         IN  <<ContentUpdate(m)>> \o Snapshots(Tail(fs), m)

\* C4: when the frames decoded from a 2xx response are content deltas
\* d1..dn, followed or not yet followed by [DONE], and no read error
\* occurred, the events sent are ContentUpdate(d1), ContentUpdate(d1 d2),
\* ..., in that order, then Done; [DONE] is the last frame decoded and the
\* send has returned, so what follows it in the body gives no event.
C4_TerminatorOrder ==
    (InResponse /\ eng.read_errors = 0
        /\ \A i \in 1..Len(eng.frames) :
              eng.frames[i] = Terminator \/ IsDelta(eng.frames[i])) =>
        /\ ResponseEvents = Snapshots(eng.frames, <<>>)
        /\ \A i \in 1..Len(eng.frames) :
              eng.frames[i] = Terminator =>
                  /\ i = Len(eng.frames)
                  /\ eng.pc = "returned"
                  /\ eng.result = "Ok"
                  /\ Last(eng.sent) = StreamDone

\* d1, [DONE] and one more content line arrived in one chunk.
C4_Witness ==
    /\ InResponse
    /\ eng.body = Flatten(<<ContentLine(1), LineDone, ContentLine(2)>>)
    /\ eng.pos = Len(eng.body)
    /\ eng.frames = <<<<"{c", "a", "}">>, Terminator>>
    /\ eng.sent = <<ContentUpdate(<<"a">>), StreamDone>>
    /\ eng.pc = "returned"

\* C5: the i-th ContentUpdate of a response carries the concatenation, in
\* order, of the first i content deltas decoded from it, each once; the
\* accumulated text is the concatenation of all deltas decoded so far.
C5_Snapshots ==
    InResponse =>
        LET cs == SelectSeq(ResponseEvents, IsContent)
            ds == SelectSeq(eng.frames, IsDelta)
        IN  /\ Len(cs) = Len(ds)
            /\ \A i \in 1..Len(cs) : cs[i].text = Concat(SubSeq(ds, 1, i))
            /\ eng.current_message = Concat(ds)

C5_Witness ==
    /\ InResponse
    /\ SelectSeq(ResponseEvents, IsContent) =
          <<ContentUpdate(<<"a">>), ContentUpdate(<<"a", "u1", "u2">>)>>
    /\ Len(eng.frames) = 2

\* The engine as it was when the 2xx response arrived.
AtResponseStart ==
    [eng EXCEPT !.pc = "stream", !.result = "none", !.status = 0,
                !.retry_count = eng.resp_start,
                !.incomplete_data = <<>>, !.current_message = <<>>,
                !.sent = SubSeq(eng.sent, 1, eng.resp_start),
                !.frames = <<>>]

\* The same body fed as a single chunk.
OneChunk == ProcessChunk(AtResponseStart, eng.body)

\* The response was consumed to its end without a read error.
Consumed == InResponse /\ eng.pc = "returned" /\ eng.read_errors = 0

\* C6: for every way of cutting a well-formed stream into chunks, the
\* frames decoded, and the events sent, are those of the whole stream fed
\* as a single chunk.
C6_ChunkingInvariance ==
    Consumed =>
        /\ eng.frames = OneChunk.frames
        /\ eng.sent = OneChunk.sent

\* C6, for the cuts that leave every chunk valid UTF-8.
C6_CharAlignedCuts == eng.invalid_chunks = 0 => C6_ChunkingInvariance

\* The text of the first n content lines a server writes.
RECURSIVE Reply(_)
Reply(n) == IF n = 0 THEN <<>> ELSE Reply(n - 1) \o Delta(n)

\* The bytes delivered so far hold content lines only.
OnlyContentDelivered ==
    \A i \in 1..eng.pos : eng.body[i] \notin {"{e", "[DO", "NE]"}

\* The content frames whose closing bytes have been delivered.
NumClosed == Cardinality({i \in 1..eng.pos : eng.body[i] = "}"})

\* C7: wherever the chunks cut the JSON of the content frames delivered so
\* far, a frame whose closing bytes have not arrived has produced no event,
\* no error and no change of the retry counter, and every frame whose
\* closing bytes have arrived was decoded and its delta emitted exactly once.
C7_SplitJson ==
    (InResponse /\ eng.read_errors = 0 /\ OnlyContentDelivered) =>
        /\ ResponseEvents = [i \in 1..NumClosed |-> ContentUpdate(Reply(i))]
        /\ eng.retry_count = eng.resp_start
        /\ eng.pc = "returned" => eng.result = "Ok"

\* C7, for the cuts that leave every chunk valid UTF-8.
C7_CharAlignedCuts == eng.invalid_chunks = 0 => C7_SplitJson

IsApiNotice(m) == m.kind = "notice" /\ m.text = <<"api">>
Is429Notice(m) == m.kind = "notice" /\ m.text = <<"429">>
IsFatal(m) == m.kind = "fatal"

Max(S) == CHOOSE x \in S : \A y \in S : y <= x

\* C8: a retry for an error object in the stream abandons the response and
\* issues a new HTTP request: once past the request, every 429 notice and
\* every API-error notice sent so far has had its own new request, and no
\* frame of a response is decoded after an error frame of that response.
C8_ApiErrorRestarts ==
    eng.pc # "attempt" =>
        /\ eng.attempts >= 1 + Len(SelectSeq(eng.sent, Is429Notice))
                             + Len(SelectSeq(eng.sent, IsApiNotice))
        /\ \A i \in 1..(Len(eng.frames) - 1) : ~IsErrorFrame(eng.frames[i])

\* C9: no ContentUpdate sent after the last API-error retry notice holds a
\* delta decoded before it: these snapshots are built from the deltas that
\* follow the error frame that was retried only.
C9_RetryDiscardsContent ==
    LET notices == {i \in 1..Len(eng.sent) : IsApiNotice(eng.sent[i])}
        errors == {j \in 1..Len(eng.frames) : IsErrorFrame(eng.frames[j])}
    IN  (notices # {} /\ Cardinality(errors) >= Cardinality(notices)) =>
            LET retried == CHOOSE j \in errors :
                    Cardinality({x \in errors : x <= j}) = Cardinality(notices)
                after == SelectSeq(SubSeq(eng.sent, Max(notices) + 1, Len(eng.sent)),
                                   IsContent)
                ds == SelectSeq(SubSeq(eng.frames, retried + 1, Len(eng.frames)),
                                IsDelta)
            IN  \A k \in 1..Len(after) :
                    k <= Len(ds) /\ after[k].text = Concat(SubSeq(ds, 1, k))

\* An error frame of the response was not answered by a retry.
ApiErrorNotRetried ==
    Len(SelectSeq(eng.frames, IsErrorFrame)) >
        Len(SelectSeq(ResponseEvents, IsApiNotice))

\* C10: at most one fatal error message is put on the channel, Done is the
\* message right after it and the last one; every Err of send_request (429
\* with no retry left, another non-2xx status, a transport failure) and
\* every in-stream API error with no retry left is delivered this way.
C10_FatalThenDone ==
    /\ \A i \in 1..Len(chan) :
          IsFatal(chan[i]) => /\ i + 1 = Len(chan)
                              /\ chan[i + 1] = StreamDone
    /\ eng.result \in {"TooManyRequests", "HttpError", "Other"} =>
          /\ Len(chan) >= 2
          /\ chan[Len(chan) - 1] = ErrorMsg(eng.result, eng.status)
    /\ (InResponse /\ ApiErrorNotRetried) =>
          /\ eng.pc = "returned"
          /\ Len(chan) >= 2
          /\ chan[Len(chan) - 1] = ApiErrorMsg(eng.retry_count)

\* An API error after the only retry was spent on an earlier API error.
C10_Witness ==
    /\ eng.max_retries = 1
    /\ chan = <<RetryNotice("api", 1), ApiErrorMsg(1), StreamDone>>
    /\ eng.pc = "returned"

IsDone(m) == m = StreamDone
IsNotice(m) == m.kind = "notice"
IsNetNotice(m) == m.kind = "notice" /\ m.text = <<"net">>

\* C11: when the body of a 2xx response has ended and send_request has
\* returned, Done has been put on the channel for the consumer, whether or
\* not the terminator was recognised.
C11_DoneAtBodyEnd ==
    (InResponse /\ eng.pc = "returned") =>
        \E i \in 1..Len(eng.sent) : IsDone(eng.sent[i])

DoneSent == \E i \in 1..Len(eng.sent) : IsDone(eng.sent[i])

\* C12: Done is sent at most once, it is the last message sent, the send
\* has returned by then, and from then on nothing is sent and no request
\* is issued.
C12_DoneIsLast ==
    /\ [](DoneSent => /\ Len(SelectSeq(eng.sent, IsDone)) = 1
                      /\ IsDone(Last(eng.sent))
                      /\ eng.pc = "returned")
    /\ [][DoneSent => /\ eng'.sent = eng.sent
                      /\ eng'.attempts = eng.attempts
                      /\ eng'.pc = "returned"]_vars

\* Done was sent for the terminator, with content before it and bytes of
\* the body left unread after it.
C12_Witness ==
    /\ InResponse
    /\ Len(eng.sent) >= 2
    /\ IsDone(Last(eng.sent))
    /\ Last(eng.frames) = Terminator
    /\ eng.pos < Len(eng.body)
    /\ eng.pc = "returned"

\* C13: a send ends with the transport error of a request that got no
\* response only when retries are disabled or exhausted.
C13_TransportRetried ==
    (eng.statuses # <<>> /\ Last(eng.statuses) = 0 /\ eng.pc = "returned") =>
        ~(eng.retry_enabled /\ eng.retry_count < eng.max_retries)

\* C14: after a read error answered by a retry notice the response is
\* given up and the request is about to be issued again; a read error with
\* no retry left ends the send with the transport error.
C14_ReadErrorRestarts ==
    /\ (eng.sent # <<>> /\ IsNetNotice(Last(eng.sent))) => eng.pc = "attempt"
    /\ (eng.read_errors > Len(SelectSeq(eng.sent, IsNetNotice))) =>
          /\ eng.pc = "returned"
          /\ eng.result = "Other"

\* C15: when the consumer has processed ContentUpdate events only, the
\* assistant message displayed holds exactly the text of the last one
\* processed: a snapshot replaces the view.
C15_SnapshotReplacesView ==
    (ui.received # <<>> /\ \A i \in 1..Len(ui.received) : IsContent(ui.received[i])) =>
        /\ last_message_is_assistant(ui.chat_history)
        /\ Last(ui.chat_history).content = Last(ui.received).text

\* C16: whatever the interleaving of sends and polls, what the consumer
\* has received followed by what is still queued is exactly what the
\* producer sent, in its order; and the producer can always take its next
\* step, however many messages are queued.
C16_ChannelOrder ==
    /\ eng.sent = ui.received \o chan
    /\ eng.pc = "attempt" => ENABLED Respond2xx
    /\ eng.pc = "stream" =>
          (ENABLED NextEnd) \/ (ENABLED NextError) \/ (ENABLED NextChunk)

\* The consumer is behind: it has taken one message while two more wait
\* and the producer is still streaming.
C16_Witness ==
    /\ eng.pc = "stream"
    /\ Len(ui.received) = 1
    /\ Len(chan) = 2
    /\ ui.receiver = "send"

\* C17: the retry counter is the number of retry notices sent so far, the
\* notices carry 1, 2, 3, ... in the order sent whatever their cause (429,
\* API error, read error), and the counter is between 0 and max_retries; it
\* is 0 when retry is disabled or max_retries <= 0.
C17_SharedCounter ==
    LET ns == SelectSeq(eng.sent, IsNotice)
    IN  /\ eng.retry_count = Len(ns)
        /\ \A i \in 1..Len(ns) : ns[i].n = i
        /\ eng.retry_count >= 0
        /\ eng.retry_count <= IF eng.retry_enabled /\ eng.max_retries > 0
                              THEN eng.max_retries ELSE 0

\* A 429 and an API error used up a budget of two, and the read error that
\* followed found none left.
C17_Witness ==
    /\ eng.max_retries = 2
    /\ eng.sent = <<RetryNotice("429", 1), RetryNotice("api", 2),
                    ErrorMsg("Other", 0), StreamDone>>
    /\ eng.retry_count = 2

\* The retries a send may make.
Budget == IF eng.retry_enabled /\ eng.max_retries > 0 THEN eng.max_retries ELSE 0

\* C18: a send issues at most max_retries + 1 HTTP requests, exactly one
\* when retry is disabled or max_retries <= 0; and when every request is
\* answered and every body comes to a chunk, an error or its end,
\* send_request returns.
C18_BoundedAndReturns ==
    /\ [](/\ eng.attempts <= Budget + 1
          /\ eng.pc # "attempt" => eng.attempts >= 1)
    /\ <>(eng.pc = "returned")

\* The largest number of requests: every one but the last answered 429.
C18_Witness ==
    /\ eng.retry_enabled
    /\ eng.max_retries = MaxRetries
    /\ eng.attempts = MaxRetries + 1
    /\ Last(eng.statuses) = 200
    /\ eng.pc = "returned"

\* C19: the decoder buffer is empty whenever a request is about to be
\* issued, and a step that issues one starts from an empty buffer and
\* leaves it empty: a response is never decoded behind text of an earlier
\* one.
C19_FreshDecoder ==
    /\ [](eng.pc = "attempt" => eng.incomplete_data = <<>>)
    /\ [][eng'.attempts # eng.attempts =>
            /\ eng.incomplete_data = <<>>
            /\ eng'.incomplete_data = <<>>]_vars

\* The response to a re-issued request is being decoded, part of a line in
\* the buffer.
C19_Witness ==
    /\ eng.statuses = <<TOO_MANY_REQUESTS, 200>>
    /\ eng.pc = "stream"
    /\ eng.incomplete_data # <<>>
    /\ eng.frames # <<>>

\* The text after the first marker of buf parses as JSON.
Parses(buf) == ContainsMarker(buf) /\ JsonParse(AfterMarker(buf)).ok

\* The text after the first marker of buf is the terminator.
Terminates(buf) == ContainsMarker(buf) /\ AfterMarker(buf) = Terminator

\* C20: for a chunk that is valid UTF-8 and holds one line, with buf the
\* buffer after the line was appended to it: if the text after the first
\* marker of buf parses as JSON the buffer is empty afterwards, text before
\* the marker included; otherwise the buffer is buf, and unless that text
\* is the terminator nothing is sent, no frame is decoded and neither the
\* retry counter nor the accumulated message changes.
C20_BufferCleared ==
    [][(eng.pc = "stream" /\ eng'.pos > eng.pos) =>
          LET chunk == SubSeq(eng'.body, eng.pos + 1, eng'.pos)
              buf == eng.incomplete_data \o Lines(chunk)[1]
          IN  (ValidUtf8(chunk) /\ Len(Lines(chunk)) = 1) =>
                 /\ Parses(buf) => eng'.incomplete_data = <<>>
                 /\ ~Parses(buf) => eng'.incomplete_data = buf
                 /\ (~Parses(buf) /\ ~Terminates(buf)) =>
                       /\ eng'.sent = eng.sent
                       /\ eng'.frames = eng.frames
                       /\ eng'.retry_count = eng.retry_count
                       /\ eng'.current_message = eng.current_message
                       /\ eng'.pc = "stream"]_vars

\* The closing bytes of a frame lost to invalid chunks are in the buffer,
\* before the marker of the next frame, whose JSON has not parsed yet.
C20_Witness ==
    /\ eng.pc = "stream"
    /\ eng.incomplete_data = <<"}">> \o Marker \o <<"{c", "u1", "u2">>
    /\ eng.invalid_chunks = 2
    /\ Len(eng.frames) = 1

\* The bytes a step takes from the body.
Delivered == SubSeq(eng'.body, eng.pos + 1, eng'.pos)

\* A step that reads a chunk.
ChunkRead == eng.pc = "stream" /\ eng'.pos > eng.pos

\* C21: a chunk that is not valid UTF-8 is dropped whole: nothing is sent,
\* send_request does not return, the decoder buffer, the accumulated
\* message and the retry counter stay as they are, no frame is decoded, and
\* the stream is read on.
C21_InvalidChunkDropped ==
    [][(ChunkRead /\ ~ValidUtf8(Delivered)) =>
          /\ eng'.sent = eng.sent
          /\ eng'.pc = "stream"
          /\ eng'.result = eng.result
          /\ eng'.incomplete_data = eng.incomplete_data
          /\ eng'.current_message = eng.current_message
          /\ eng'.retry_count = eng.retry_count
          /\ eng'.frames = eng.frames]_vars

\* Two chunks were dropped while the buffer held the start of a frame and a
\* snapshot had been sent; the buffer and the message are as they were.
C21_Witness ==
    /\ eng.pc = "stream"
    /\ eng.invalid_chunks = 2
    /\ eng.incomplete_data = Marker \o <<"{c">>
    /\ eng.current_message = <<"a">>
    /\ eng.sent = <<ContentUpdate(<<"a">>)>>
    /\ eng.pos = Len(eng.body)

Is200(status) == status = 200

\* C26: a request is issued only first or after a 429 retry: past the
\* request the number of requests is 1 plus the number of 429 notices, at
\* most one 2xx response is ever read, and a step that sends an API-error
\* or read-error notice issues no request and stays with the response
\* (reading it on, or returning for what the same chunk holds next).
C26_OnlyRateLimitReissues ==
    /\ [](/\ eng.pc # "attempt" =>
                eng.attempts = 1 + Len(SelectSeq(eng.sent, Is429Notice))
          /\ eng.pc = "attempt" =>
                eng.attempts = Len(SelectSeq(eng.sent, Is429Notice))
          /\ Len(SelectSeq(eng.statuses, Is200)) <= 1
          /\ \A i \in 1..Len(eng.statuses) :
                Is200(eng.statuses[i]) => i = Len(eng.statuses))
    /\ [][(Len(SelectSeq(eng'.sent, IsApiNotice)) > Len(SelectSeq(eng.sent, IsApiNotice))
            \/ Len(SelectSeq(eng'.sent, IsNetNotice)) > Len(SelectSeq(eng.sent, IsNetNotice))) =>
              /\ eng'.attempts = eng.attempts
              /\ eng'.statuses = eng.statuses
              /\ eng'.retry_count > eng.retry_count
              /\ eng'.pc = "stream" \/ (eng'.pc = "returned" /\ eng'.pos > eng.pos)
              /\ eng'.result \in {"none", "Ok"}]_vars

\* A 429 and an API error were each answered by a retry; two requests
\* were issued and the one 2xx response is still being read.
C26_Witness ==
    /\ eng.statuses = <<TOO_MANY_REQUESTS, 200>>
    /\ eng.attempts = 2
    /\ Len(SelectSeq(eng.sent, IsApiNotice)) = 1
    /\ eng.retry_count = 2
    /\ eng.pc = "stream"
    /\ eng.pos < Len(eng.body)

\* The content snapshots sent, and the content frames decoded, so far.
SentSnapshots == SelectSeq(eng.sent, IsContent)
DecodedDeltas == SelectSeq(eng.frames, IsDelta)

\* C28: over the whole send, the content snapshots taken in the order sent
\* (notices set aside) each are the snapshot before them with the next
\* delta decoded appended, the first being the first delta; the
\* accumulated message is the last snapshot; and once a snapshot was sent
\* no request is issued.
C28_SnapshotsOnlyGrow ==
    /\ [](/\ Len(SentSnapshots) = Len(DecodedDeltas)
          /\ \A i \in 1..Len(SentSnapshots) :
                SentSnapshots[i].text =
                    (IF i = 1 THEN <<>> ELSE SentSnapshots[i - 1].text)
                        \o JsonParse(DecodedDeltas[i]).content
          /\ SentSnapshots # <<>> =>
                eng.current_message = Last(SentSnapshots).text)
    /\ [][SentSnapshots # <<>> => eng'.attempts = eng.attempts]_vars

\* A snapshot, a retry for an API error, and the next snapshot.
C28_Witness ==
    eng.sent = <<ContentUpdate(<<"a">>), RetryNotice("api", 1),
                 ContentUpdate(<<"a", "u1", "u2">>)>>

\* C29: wherever Done stands among the messages sent, either the message
\* right before it is a fatal error message, or the terminator is the
\* frame decoded last and send_request returned Ok for it.
C29_DoneHasCause ==
    \A i \in 1..Len(eng.sent) :
        IsDone(eng.sent[i]) =>
            \/ i > 1 /\ IsFatal(eng.sent[i - 1])
            \/ /\ eng.frames # <<>>
               /\ Last(eng.frames) = Terminator
               /\ eng.result = "Ok"

\* Done for the terminator right after a retry notice: no fatal message
\* comes before it.
C29_Witness ==
    /\ Len(eng.sent) = 2
    /\ IsNotice(eng.sent[1])
    /\ IsDone(eng.sent[2])
    /\ Last(eng.frames) = Terminator

IsPrefix(a, b) == Len(a) <= Len(b) /\ SubSeq(b, 1, Len(a)) = a

\* Appending text to d can make it a JSON document: d is the start of a
\* content frame inside its string, or an error object short of its
\* closing bytes.
Completable(d) ==
    \/ d = <<>>
    \/ d[1] = "{c" /\ \A i \in 2..Len(d) : d[i] \in StringChars
    \/ d = <<"{e">>

\* The buffer holds, after its first marker, text that neither is the
\* start of the terminator nor can become JSON by appending.
Dead(buf) ==
    /\ ContainsMarker(buf)
    /\ ~IsPrefix(AfterMarker(buf), Terminator)
    /\ ~Completable(AfterMarker(buf))

\* C27: for a chunk that is valid UTF-8 and holds one line, with buf the
\* buffer after the line was appended: Done is sent for the terminator
\* exactly when the text after the first marker of buf is [DONE]; a
\* data: [DONE] line appended to a buffer that holds a marker already sends
\* nothing.  And while the buffer is dead, no chunk read sends anything or
\* decodes a frame, and the buffer stays dead.
C27_TerminatorExact ==
    [][ChunkRead =>
          LET chunk == Delivered
              buf == eng.incomplete_data \o Lines(chunk)[1]
          IN  /\ (ValidUtf8(chunk) /\ Len(Lines(chunk)) = 1) =>
                    /\ Terminates(buf) <=>
                          /\ eng'.frames = Append(eng.frames, Terminator)
                          /\ eng'.sent = Append(eng.sent, StreamDone)
                          /\ eng'.pc = "returned"
                    /\ (Lines(chunk)[1] = LineDone
                            /\ ContainsMarker(eng.incomplete_data)) =>
                          /\ eng'.sent = eng.sent
                          /\ eng'.pc = "stream"
              /\ Dead(eng.incomplete_data) =>
                    /\ eng'.sent = eng.sent
                    /\ eng'.frames = eng.frames
                    /\ eng'.pc = "stream"
                    /\ Dead(eng'.incomplete_data)]_vars

\* A content frame was cut after its opening bytes and its rest lost to
\* invalid chunks; the next content line made the buffer dead, and the
\* data: [DONE] line after it was appended without Done.
C27_Witness ==
    /\ eng.pc = "stream"
    /\ eng.incomplete_data =
          Marker \o <<"{c">> \o ContentLine(3) \o LineDone
    /\ eng.sent = <<ContentUpdate(<<"a">>)>>
    /\ eng.pos = Len(eng.body)


\* A tick that took something took the head of the queue, and only it.
TookOne ==
    ui'.received # ui.received =>
        /\ chan # <<>>
        /\ ui'.received = Append(ui.received, Head(chan))
        /\ chan' = Tail(chan)

\* C22: a tick of the update loop removes at most one event from the
\* channel however many are queued: the event taken is the head, the others
\* stay queued in their order, and while events are queued and the receiver
\* is held a later tick can take the next one.
C22_OnePerTick ==
    /\ []((ui.receiver = "send" /\ chan # <<>>) => ENABLED Poll)
    /\ [][TookOne]_vars

\* Two ticks have taken two events while the engine, which has returned,
\* had queued more: events are still waiting.
C22_Witness ==
    /\ eng.pc = "returned"
    /\ Len(ui.received) = 2
    /\ Len(chan) >= 2
    /\ ui.receiver = "send"


\* What the consumer has received since the last selection of a chat.
SinceSelection == SubSeq(ui.received, ui.selected_at + 1, Len(ui.received))

\* The strings of the events of ms that are not Done, one after the other.
RECURSIVE TextOf(_)
TextOf(ms) ==
    IF ms = <<>> THEN <<>>
    ELSE IF IsDone(Head(ms)) THEN TextOf(Tail(ms))
    ELSE Str(Head(ms)) \o TextOf(Tail(ms))

\* The history base after the events ms have been applied to it.
Applied(base, ms) ==
    IF \A i \in 1..Len(ms) : IsDone(ms[i]) THEN base
    ELSE IF last_message_is_assistant(base)
    THEN [base EXCEPT ![Len(base)].content = @ \o TextOf(ms)]
    ELSE Append(base, [role |-> "assistant", content |-> TextOf(ms)])

\* The user selected a chat while the send was in flight: Done had not
\* been taken from the channel.
SelectedInFlight ==
    /\ ui.selections >= 1
    /\ \A i \in 1..ui.selected_at : ~IsDone(ui.received[i])

Dropped == ui.receiver # "send"

\* The task of the first send can take a step.
CanStep ==
    /\ eng.pc = "attempt" => ENABLED Respond2xxOf(1)
    /\ eng.pc = "stream" =>
          (ENABLED NextEndOf(1)) \/ (ENABLED NextErrorOf(1)) \/ (ENABLED NextLineOf(1))

\* The requests issued are the first one and one per 429 retry.
RequestsAsAlone ==
    /\ eng.pc # "attempt" => eng.attempts = 1 + Len(SelectSeq(eng.sent, Is429Notice))
    /\ eng.pc = "attempt" => eng.attempts = Len(SelectSeq(eng.sent, Is429Notice))

\* send_request returned for one of the reasons of its code.
ReturnedForCause ==
    eng.pc = "returned" =>
        /\ eng.result = "Ok" =>
              /\ Last(eng.statuses) = 200
              /\ \/ DoneSent
                 \/ eng.pos = Len(eng.body)
        /\ eng.result = "TooManyRequests" =>
              Last(eng.statuses) = TOO_MANY_REQUESTS /\ ~CanRetry(eng)
        /\ eng.result = "HttpError" => Last(eng.statuses) \in HardStatuses
        /\ eng.result = "Other" =>
              \/ Last(eng.statuses) = 0
              \/ eng.read_errors > 0 /\ ~CanRetry(eng)
        /\ eng.result # "Ok" =>
              /\ Len(eng.sent) >= 2
              /\ Last(eng.sent) = StreamDone
              /\ eng.sent[Len(eng.sent) - 1] = ErrorMsg(eng.result, eng.status)

\* C23: once the consumer has replaced the receiver of a send in flight,
\* the task goes on: what it sends joins no channel and changes nothing
\* for the consumer, a step of it is enabled until send_request returns,
\* the requests it issues are the first and one per 429 retry, and it
\* returns for the reasons of the code, with the error message and Done
\* sent after an Err.
C23_ProducerGoesOn ==
    /\ [](Dropped => /\ CanStep
                      /\ RequestsAsAlone
                      /\ ReturnedForCause
                      /\ chan = <<>>)
    /\ [][(Dropped /\ eng' # eng) =>
              /\ eng'.pc \in {"attempt", "stream", "returned"}
              /\ Len(eng'.sent) >= Len(eng.sent)
              /\ ui' = ui
              /\ chan2' = chan2]_vars

\* The receiver was replaced after the consumer had taken the retry notice
\* of the first send; the task went on to a 2xx response, sent content and
\* returned Ok for the terminator.
C23_Witness ==
    /\ ui.receiver = "send2"
    /\ ui.from = <<"send">>
    /\ ui.received = <<RetryNotice("429", 1)>>
    /\ eng.pc = "returned"
    /\ eng.result = "Ok"
    /\ eng.sent = <<RetryNotice("429", 1), ContentUpdate(Delta(1)), StreamDone>>
    /\ chan = <<>>


\* What a step of send_request makes of the locals e, whatever else runs.
StepsAlone(e) ==
    (IF e.pc = "attempt"
     THEN {Return(IssuedBy(e, 0), "Other", 0),
           OnErrorStatus(IssuedBy(e, TOO_MANY_REQUESTS), TOO_MANY_REQUESTS),
           OnSuccessStatus(IssuedBy(e, 200))}
          \cup {OnErrorStatus(IssuedBy(e, status), status) : status \in HardStatuses}
     ELSE {})
    \cup
    (IF e.pc = "stream" /\ NumLines(e.body) < MaxFramesTwo
     THEN {LET chunk == Flatten(Written(<<kind>>, NumContent(e.body)))
           IN  ProcessChunk([e EXCEPT !.body = @ \o chunk, !.pos = @ + Len(chunk)],
                            chunk) : kind \in LineKinds}
     ELSE {})
    \cup
    (IF e.pc = "stream" /\ e.read_errors < MaxReadErrors THEN {OnReadError(e)} ELSE {})
    \cup
    (IF e.pc = "stream" /\ e.pos = Len(e.body) THEN {Return(e, "Ok", 0)} ELSE {})

\* The steps of the longest run of a send: every request but the last
\* answered 429, every line read, every read error, and the return.
LongestRun == MaxRetriesTwo + MaxFramesTwo + MaxReadErrors + 2

\* The locals reached from those of S in at most n steps.
RECURSIVE Closure(_, _)
Closure(S, n) ==
    LET T == S \cup UNION {StepsAlone(e) : e \in S}
    IN  IF T = S \/ n = 0 THEN S ELSE Closure(T, n - 1)

\* The locals a send can come to when it is the only one running.
AloneStates ==
    Closure({Entry(enabled, max) : enabled \in BOOLEAN, max \in 0..MaxRetriesTwo},
            LongestRun)

\* The messages the consumer has taken from the channel of send k.
RECURSIVE TakenFrom(_, _)
TakenFrom(k, i) ==
    IF i = 0 THEN <<>>
    ELSE IF ui.from[i] = ReceiverOf(k)
    THEN Append(TakenFrom(k, i - 1), ui.received[i])
    ELSE TakenFrom(k, i - 1)

\* Both sends have been started.
TwoStarted == eng2.pc # "idle"

\* A step of one task leaves the other task and its channel as they are.
OwnStateOnly ==
    /\ eng' # eng => (eng2' = eng2 /\ chan2' = chan2)
    /\ (TwoStarted /\ eng2' # eng2) => (eng' = eng /\ chan' = chan)

\* C24: with two sends running, the locals of each task (retry count,
\* accumulated text, decoder buffer, messages sent, and the rest) are locals
\* the send comes to when it runs alone on the same responses; the channel
\* of a send holds messages of that send only, in the order sent; and a
\* step of one task changes neither the other task nor its channel.
C24_Independent ==
    /\ [](/\ eng \in AloneStates
          /\ TwoStarted => eng2 \in AloneStates
          /\ ui.receiver = "send" =>
                eng.sent = TakenFrom(1, Len(ui.received)) \o chan
          /\ ui.receiver = "send2" =>
                eng2.sent = TakenFrom(2, Len(ui.received)) \o chan2
          /\ ~TwoStarted => chan2 = <<>>)
    /\ [][OwnStateOnly]_vars

\* Both tasks are reading a response: the first after a 429 retry and with
\* two content frames accumulated, the second with no retry and one.
C24_Witness ==
    /\ eng.pc = "stream"
    /\ eng2.pc = "stream"
    /\ eng.retry_count = 1
    /\ eng2.retry_count = 0
    /\ eng2.max_retries = 1
    /\ eng2.retry_enabled
    /\ eng.current_message = Reply(2)
    /\ eng2.current_message = Reply(1)
    /\ chan2 = <<ContentUpdate(Reply(1))>>


\* The transcript when the second send was started: the first user message
\* with the events taken from the first send applied, then the second
\* user message.
AtSecondStart ==
    Append(Applied(Sending.chat_history, TakenFrom(1, Len(ui.received))),
           SecondMessage)

\* What the consumer takes once the second send is started comes from the
\* channel of the second send, and the transcript changes in no other way.
OnlySecondApplied ==
    TwoStarted =>
        /\ ui'.received # ui.received =>
              /\ chan2 # <<>>
              /\ ui'.received = Append(ui.received, Head(chan2))
              /\ ui'.from = Append(ui.from, "send2")
              /\ chan2' = Tail(chan2)
        /\ ui'.chat_history # ui.chat_history => ui'.received # ui.received

\* C25: the consumer holds one receiver; the start of a new send puts the
\* receiver of the new channel in its place, and from then on every event
\* the consumer takes is one of the new send: the transcript is the one at
\* the start of the new send with the events of the new send applied.
C25_ReceiverReplaced ==
    /\ [](/\ ui.receiver \in {"send", "send2", "title"}
          /\ TwoStarted =>
                /\ ui.receiver \in {"send2", "title"}
                /\ chan = <<>>
                /\ \A i, j \in 1..Len(ui.from) :
                      (ui.from[i] = "send2" /\ i < j) => ui.from[j] = "send2"
                /\ ui.chat_history =
                      Applied(AtSecondStart, TakenFrom(2, Len(ui.received))))
    /\ [][OnlySecondApplied]_vars

\* The consumer took one event of the first send, then the second send
\* was started and one of its events applied; the first task is still
\* reading its response and has sent content that reached no transcript.
C25_Witness ==
    /\ ui.from = <<"send", "send2">>
    /\ eng.pc = "stream"
    /\ Len(eng.sent) >= 2
    /\ IsContent(Last(eng.sent))
    /\ Len(ui.chat_history) = 4

====
